---------------------------- MODULE Spec2Model ----------------------------
(***************************************************************************)
(* Model of dev-server.py, the Lemmeric development server: the URL        *)
(* rewriting of LemmericHTTPRequestHandler.do_GET, the CORS headers of     *)
(* LemmericHTTPRequestHandler.end_headers and the start-up of main.        *)
(*                                                                         *)
(* A Python str is modelled as a sequence of one-character strings, so     *)
(* that parsing, regular-expression matching and percent-encoding are      *)
(* computed character by character, as the code computes them.             *)
(***************************************************************************)
EXTENDS Integers, Sequences, FiniteSets, TLC

(***************************************************************************)
(* Bounds of the model.                                                    *)
(***************************************************************************)
\* longest tail appended to a stem to build a request target
MaxTail ==
    2
\* longest command-line argument given to main
MaxArgLen ==
    3

(***************************************************************************)
(* State.                                                                  *)
(***************************************************************************)
VARIABLES
    pc_main,          \* where main is
    argv,             \* sys.argv[1:]
    port,             \* main's port
    cwd,              \* the working directory
    bound,            \* <<the port passed to TCPServer>>, once it was
    stdout,           \* the lines main printed
    dev_log,          \* the destination of the last "DEV: Rewriting" line printed
    hpc,              \* where the handler of the current request is
    request_version,  \* its request_version
    request_path,     \* the request target it received
    self_path,        \* its self.path
    branch,           \* the branch its do_GET took
    headers_buffer,   \* its _headers_buffer
    wfile,            \* what it wrote to the connection
    resubmitted,      \* the client sent the previous rewritten target again
    pending,          \* the rewritten target the client is about to send again
    observed,         \* the request is one of an observed sequence
    memo              \* the first observed request and its rewritten target

(***************************************************************************)
(* String literals of the source.                                          *)
(***************************************************************************)
Pat_communities ==
    <<"/", "c", "o", "m", "m", "u", "n", "i", "t", "i", "e", "s">>
Pat_post ==
    <<"/", "p", "o", "s", "t", "/">>
Pat_u ==
    <<"/", "u", "/">>
Pat_c ==
    <<"/", "c", "/">>
Pat_search ==
    <<"/", "s", "e", "a", "r", "c", "h">>
Pat_create_post ==
    <<"/", "c", "r", "e", "a", "t", "e", "-", "p", "o", "s", "t">>
Pat_create_community ==
    <<"/", "c", "r", "e", "a", "t", "e", "-", "c", "o", "m", "m", "u", "n", "i", "t", "y">>
Pat_inbox ==
    <<"/", "i", "n", "b", "o", "x">>
Pat_settings ==
    <<"/", "s", "e", "t", "t", "i", "n", "g", "s">>
Pat_root ==
    <<"/">>

Dst_communities ==
    <<"/", "c", "o", "m", "m", "u", "n", "i", "t", "i", "e", "s", ".", "h", "t", "m", "l">>
Dst_post ==
    <<"/", "p", "o", "s", "t", ".", "h", "t", "m", "l">>
Dst_user ==
    <<"/", "u", "s", "e", "r", ".", "h", "t", "m", "l">>
Dst_community ==
    <<"/", "c", "o", "m", "m", "u", "n", "i", "t", "y", ".", "h", "t", "m", "l">>
\* mutant: the destination without ".html"
Dst_search_bare ==
    <<"/", "s", "e", "a", "r", "c", "h">>
Dst_search ==
    <<"/", "s", "e", "a", "r", "c", "h", ".", "h", "t", "m", "l">>
Dst_create_post ==
    <<"/", "c", "r", "e", "a", "t", "e", "_", "p", "o", "s", "t", ".", "h", "t", "m", "l">>
Dst_create_community ==
    <<"/", "c", "r", "e", "a", "t", "e", "-", "c", "o", "m", "m", "u", "n", "i", "t", "y", ".", "h", "t", "m", "l">>
Dst_inbox ==
    <<"/", "i", "n", "b", "o", "x", ".", "h", "t", "m", "l">>
Dst_settings ==
    <<"/", "s", "e", "t", "t", "i", "n", "g", "s", ".", "h", "t", "m", "l">>
Dst_index ==
    <<"/", "i", "n", "d", "e", "x", ".", "h", "t", "m", "l">>

Key_id ==
    <<"i", "d", "=">>
Key_username ==
    <<"u", "s", "e", "r", "n", "a", "m", "e", "=">>
Key_name ==
    <<"n", "a", "m", "e", "=">>

(***************************************************************************)
(* str operations.                                                         *)
(***************************************************************************)
StartsWith(s, p) ==
    Len(s) >= Len(p) /\ SubSeq(s, 1, Len(p)) = p

\* s[n:]
From(s, n) ==
    SubSeq(s, n + 1, Len(s))

\* str.find(c) + 1: the first position of c in s, 0 when absent
Find(s, c) ==
    IF \E i \in 1..Len(s) : s[i] = c
    THEN CHOOSE i \in 1..Len(s) : s[i] = c /\ \A j \in 1..(i - 1) : s[j] # c
    ELSE 0

\* str.rfind(c) + 1: the last position of c in s, 0 when absent
RFind(s, c) ==
    IF \E i \in 1..Len(s) : s[i] = c
    THEN CHOOSE i \in 1..Len(s) : s[i] = c /\ \A j \in (i + 1)..Len(s) : s[j] # c
    ELSE 0

\* the length of the longest prefix of s whose characters are all in class
Span(s, class) ==
    IF \E i \in 1..Len(s) : s[i] \notin class
    THEN (CHOOSE i \in 1..Len(s) : s[i] \notin class /\ \A j \in 1..(i - 1) : s[j] \in class) - 1
    ELSE Len(s)

(***************************************************************************)
(* urllib.parse.urlparse on a request target in origin form (it starts     *)
(* with one "/"): the fragment is cut at the first "#", the query at the   *)
(* first "?", and the parameters at the first ";" of the last path         *)
(* segment.                                                                *)
(***************************************************************************)
urlparse(url) ==
    LET h == Find(url, "#")
        nofrag == IF h > 0 THEN SubSeq(url, 1, h - 1) ELSE url
        q == Find(nofrag, "?")
        full == IF q > 0 THEN SubSeq(nofrag, 1, q - 1) ELSE nofrag
        last == From(full, RFind(full, "/"))
        p == Find(last, ";")
        cut == IF p > 0 THEN RFind(full, "/") + p ELSE 0
    IN  [ path     |-> IF cut > 0 THEN SubSeq(full, 1, cut - 1) ELSE full,
          params   |-> IF cut > 0 THEN From(full, cut) ELSE <<>>,
          query    |-> IF q > 0 THEN From(nofrag, q) ELSE <<>>,
          fragment |-> IF h > 0 THEN From(url, h) ELSE <<>> ]

(***************************************************************************)
(* The regular expressions of do_GET.  "$" matches at the end of the       *)
(* string and before a newline that ends it.                               *)
(***************************************************************************)
Digits ==
    {"0", "1", "2", "3", "4", "5", "6", "7", "8", "9"}

AtEnd(rest) ==
    rest = <<>> \/ rest = <<"\n">>

\* the tail "/?$" of every pattern
OptSlashEnd(rest) ==
    AtEnd(rest) \/ (StartsWith(rest, <<"/">>) /\ AtEnd(From(rest, 1)))

\* mutant: the pattern without its "/?$" tail
MatchLiteral_unanchored(lit, path) ==
    StartsWith(path, lit)

\* re.match(r'^<lit>/?$', path)
MatchLiteral(lit, path) ==
    StartsWith(path, lit) /\ OptSlashEnd(From(path, Len(lit)))

\* no match object: a group of these patterns is never empty
NoMatch ==
    <<>>

\* mutant: "/post/" followed by anything
MatchPost_any(path) ==
    IF StartsWith(path, Pat_post) /\ Len(path) > Len(Pat_post)
    THEN From(path, Len(Pat_post)) ELSE NoMatch

\* re.match(r'^/post/(\d+)/?$', path): group(1), or None
MatchPost(path) ==
    IF ~StartsWith(path, Pat_post) THEN NoMatch
    ELSE LET rest == From(path, Len(Pat_post))
             n == Span(rest, Digits)
         IN  IF n >= 1 /\ OptSlashEnd(From(rest, n))
             THEN SubSeq(rest, 1, n) ELSE NoMatch

\* re.match(r'^<prefix>([^/?]+)/?$', path): group(1), or None
MatchSegment(prefix, path) ==
    IF ~StartsWith(path, prefix) THEN NoMatch
    ELSE LET rest == From(path, Len(prefix))
             n == IF \E i \in 1..Len(rest) : rest[i] \in {"/", "?"}
                  THEN (CHOOSE i \in 1..Len(rest) : rest[i] \in {"/", "?"}
                            /\ \A j \in 1..(i - 1) : rest[j] \notin {"/", "?"}) - 1
                  ELSE Len(rest)
         IN  IF n >= 1 /\ OptSlashEnd(From(rest, n))
             THEN SubSeq(rest, 1, n) ELSE NoMatch

MatchUser(path) ==
    MatchSegment(Pat_u, path)

\* mutant: the pattern r'^/c' only
MatchCommunity_prefix(path) ==
    IF StartsWith(path, <<"/", "c">>) THEN path ELSE NoMatch

MatchCommunity(path) ==
    MatchSegment(Pat_c, path)

(***************************************************************************)
(* urllib.parse.quote with its default safe="/": letters, digits and       *)
(* "_.-~/" are kept, every other character becomes "%" and the two         *)
(* upper-case hex digits of its code.                                      *)
(***************************************************************************)
AlwaysSafe ==
    { "a", "b", "c", "d", "e", "f", "g", "h", "i", "j", "k", "l", "m",
      "n", "o", "p", "q", "r", "s", "t", "u", "v", "w", "x", "y", "z",
      "A", "B", "C", "D", "E", "F" } \cup Digits \cup {"_", ".", "-", "~"}

HexCode(c) ==
    CASE c = "%" -> <<"2", "5">>
      [] c = ";" -> <<"3", "B">>
      [] c = "&" -> <<"2", "6">>
      [] c = "=" -> <<"3", "D">>
      [] c = "#" -> <<"2", "3">>
      [] c = "?" -> <<"3", "F">>
      [] c = "+" -> <<"2", "B">>
      [] c = "@" -> <<"4", "0">>
      [] c = "\n" -> <<"0", "A">>

\* mutant: the name is injected as it is
quote_identity(s) ==
    s

RECURSIVE quote(_)
quote(s) ==
    IF s = <<>> THEN <<>>
    ELSE (IF Head(s) \in AlwaysSafe \cup {"/"}
          THEN <<Head(s)>>
          ELSE <<"%">> \o HexCode(Head(s))) \o quote(Tail(s))

(***************************************************************************)
(* The if/elif chain of do_GET: the branch taken, and the value assigned   *)
(* to self.path.                                                           *)
(***************************************************************************)
\* mutant: the query is dropped
WithQuery_drop(dest, query) ==
    dest

\* f"{dest}?{query}" if query else dest
WithQuery(dest, query) ==
    IF query # <<>> THEN dest \o <<"?">> \o query ELSE dest

\* mutant: the original query is not appended
WithParam_alone(dest, key, value, query) ==
    dest \o <<"?">> \o key \o value

\* new_query = f"{key}{value}"; if query: new_query += f"&{query}";
\* f"{dest}?{new_query}"
WithParam(dest, key, value, query) ==
    LET new_query == key \o value \o (IF query # <<>> THEN <<"&">> \o query ELSE <<>>)
    IN  dest \o <<"?">> \o new_query

\* which branch of the chain a path takes ("none": no branch)
Branch(path) ==
    IF MatchLiteral(Pat_communities, path) THEN "communities"
    ELSE IF MatchPost(path) # NoMatch THEN "post"
    ELSE IF MatchUser(path) # NoMatch THEN "u"
    ELSE IF MatchCommunity(path) # NoMatch THEN "c"
    ELSE IF MatchLiteral(Pat_search, path) THEN "search"
    ELSE IF MatchLiteral(Pat_create_post, path) THEN "create-post"
    ELSE IF MatchLiteral(Pat_create_community, path) THEN "create-community"
    ELSE IF MatchLiteral(Pat_inbox, path) THEN "inbox"
    ELSE IF MatchLiteral(Pat_settings, path) THEN "settings"
    ELSE IF path = Pat_root THEN "root"
    ELSE "none"

\* the root branch: self.path = '/index.html'
RootTarget(query) ==
    Dst_index

\* the body of branch b: the value assigned to self.path (no branch: self.path
\* keeps the request target)
BranchBody(b, path, query, target) ==
    CASE b = "communities" -> WithQuery(Dst_communities, query)
      [] b = "post" -> WithParam(Dst_post, Key_id, MatchPost(path), query)
      [] b = "u" -> WithParam(Dst_user, Key_username, quote(MatchUser(path)), query)
      [] b = "c" -> WithParam(Dst_community, Key_name, quote(MatchCommunity(path)), query)
      [] b = "search" -> WithQuery(Dst_search, query)
      [] b = "create-post" -> WithQuery(Dst_create_post, query)
      [] b = "create-community" -> WithQuery(Dst_create_community, query)
      [] b = "inbox" -> WithQuery(Dst_inbox, query)
      [] b = "settings" -> WithQuery(Dst_settings, query)
      [] b = "root" -> RootTarget(query)
      [] OTHER -> target

\* mutant: the branch of the last rewrite is kept in an attribute of the
\* class and used again
Rewrite_sticky(target) ==
    LET parsed_path == urlparse(target)
        path == parsed_path.path
        query == parsed_path.query
    IN  BranchBody(IF dev_log # "None" THEN dev_log ELSE Branch(path),
                   path, query, target)

\* self.path after lines 19-105, for the request target self.path held before
Rewrite(target) ==
    LET parsed_path == urlparse(target)
        path == parsed_path.path
        query == parsed_path.query
    IN  BranchBody(Branch(path), path, query, target)

(***************************************************************************)
(* http.server, as far as the handler relies on it.  A request whose       *)
(* request line carries no version is an HTTP/0.9 request: for it          *)
(* send_response, send_header and end_headers write nothing.               *)
(***************************************************************************)
Versions ==
    {"HTTP/0.9", "HTTP/1.1"}

\* BaseHTTPRequestHandler.send_header(keyword, value)
send_header(buffer, version, line) ==
    IF version # "HTTP/0.9" THEN Append(buffer, line) ELSE buffer

\* BaseHTTPRequestHandler.send_response(code): status line, Server, Date
send_response(buffer, version, code) ==
    send_header(send_header(send_header(buffer, version, code), version, "Server"),
                version, "Date")

\* the headers SimpleHTTPRequestHandler.send_head buffers before it calls
\* self.end_headers(): those of a file, or those of send_error(404)
DelegateHeaders(version, found) ==
    IF found
    THEN send_header(send_header(send_header(
             send_response(<<>>, version, "200 OK"),
             version, "Content-type"), version, "Content-Length"),
             version, "Last-Modified")
    ELSE send_header(send_header(send_header(
             send_response(<<>>, version, "404 File not found"),
             version, "Connection: close"), version, "Content-Type"),
             version, "Content-Length")

\* the three headers of LemmericHTTPRequestHandler.end_headers, in order
CorsHeaders ==
    << "Access-Control-Allow-Origin: *",
       "Access-Control-Allow-Methods: GET, POST, OPTIONS",
       "Access-Control-Allow-Headers: *" >>

\* mutant: the second header is forgotten
AddCors_two(buffer, version) ==
    send_header(send_header(buffer, version, CorsHeaders[1]), version, CorsHeaders[3])

\* LemmericHTTPRequestHandler.end_headers: the buffer handed to
\* super().end_headers()
AddCors(buffer, version) ==
    send_header(send_header(send_header(buffer, version, CorsHeaders[1]),
                            version, CorsHeaders[2]),
                version, CorsHeaders[3])

\* BaseHTTPRequestHandler.end_headers: the blank line, then flush_headers
FlushHeaders(buffer, version) ==
    IF version # "HTTP/0.9" THEN Append(buffer, "\r\n") ELSE <<>>

(***************************************************************************)
(* main.                                                                   *)
(***************************************************************************)
DefaultPort ==
    8000

ValueError ==
    [ok |-> FALSE, value |-> 0]

Whitespace ==
    {" "}

RECURSIVE lstrip(_)
lstrip(s) ==
    IF s # <<>> /\ Head(s) \in Whitespace THEN lstrip(Tail(s)) ELSE s

RECURSIVE rstrip(_)
rstrip(s) ==
    IF s # <<>> /\ s[Len(s)] \in Whitespace THEN rstrip(SubSeq(s, 1, Len(s) - 1)) ELSE s

DigitValue(c) ==
    CASE c = "0" -> 0 [] c = "1" -> 1 [] c = "2" -> 2 [] c = "3" -> 3
      [] c = "4" -> 4 [] c = "5" -> 5 [] c = "6" -> 6 [] c = "7" -> 7
      [] c = "8" -> 8 [] c = "9" -> 9

\* the value of digits separated by single underscores
RECURSIVE DecimalValue(_, _)
DecimalValue(s, acc) ==
    IF s = <<>> THEN acc
    ELSE IF Head(s) = "_" THEN DecimalValue(Tail(s), acc)
    ELSE DecimalValue(Tail(s), 10 * acc + DigitValue(Head(s)))

\* int(s): surrounding whitespace is stripped, one sign is allowed, then
\* digits, with single underscores between digits only
int(s) ==
    LET t == rstrip(lstrip(s))
        signed == t # <<>> /\ Head(t) \in {"+", "-"}
        d == IF signed THEN Tail(t) ELSE t
        wellformed ==
            /\ d # <<>>
            /\ \A i \in 1..Len(d) : d[i] \in Digits \cup {"_"}
            /\ d[1] # "_" /\ d[Len(d)] # "_"
            /\ \A i \in 1..(Len(d) - 1) : ~(d[i] = "_" /\ d[i + 1] = "_")
    IN  IF ~wellformed THEN ValueError
        ELSE IF signed /\ Head(t) = "-" THEN [ok |-> TRUE, value |-> 0 - DecimalValue(d, 0)]
        ELSE [ok |-> TRUE, value |-> DecimalValue(d, 0)]

\* mutant: the ValueError is not caught
ParsePort_uncaught(args) ==
    IF Len(args) = 0 THEN [port |-> DefaultPort, out |-> <<>>, raised |-> FALSE]
    ELSE IF ~int(args[1]).ok
         THEN [port |-> DefaultPort, out |-> <<>>, raised |-> TRUE]
         ELSE [port |-> int(args[1]).value, out |-> <<>>, raised |-> FALSE]

\* lines 117-122: the port and what is printed, for the arguments args
\* (sys.argv[1:]); raised: an exception leaves main
ParsePort(args) ==
    IF Len(args) = 0 THEN [port |-> DefaultPort, out |-> <<>>, raised |-> FALSE]
    ELSE IF ~int(args[1]).ok
         THEN [port |-> DefaultPort,
               out |-> <<"Invalid port number. Using default port 8000.">>,
               raised |-> FALSE]
         ELSE [port |-> int(args[1]).value, out |-> <<>>, raised |-> FALSE]

(***************************************************************************)
(* Inputs.                                                                 *)
(***************************************************************************)
TailAlphabet ==
    {"/", "?", "#", ";", "%", "1", "a"}

Tails ==
    UNION { [1..n -> TailAlphabet] : n \in 0..MaxTail }

Stems ==
    { Pat_root, Pat_communities, Pat_post, Pat_post \o <<"1">>, Pat_u,
      Pat_u \o <<"%">>, Pat_c, Pat_search, Pat_create_post,
      Pat_create_community, Pat_inbox, Pat_settings,
      <<"/", "a", "b", "o", "u", "t">>, Dst_post, Dst_index }

\* request targets as do_GET receives them: parse_request has already
\* reduced a leading "//" to "/"
Targets ==
    { s \o t : s \in Stems, t \in Tails } \ { u \in { s \o t : s \in Stems, t \in Tails } : StartsWith(u, <<"/", "/">>) }

\* the targets of the observed request sequences
SeqTargets ==
    { Pat_root, Pat_root \o <<"?", "1">>, Pat_search, Pat_search \o <<"?", "a">>,
      Pat_post \o <<"1">>, Pat_post \o <<"1", "?", "a">>, Pat_u \o <<"a">>,
      Pat_c \o <<"%", "/">>, Pat_inbox \o <<"/">>, <<"/", "a", "b", "o", "u", "t">> }

ArgAlphabet ==
    {"8", "0", "-", "+", "_", " ", "x"}

\* sys.argv[1:]: no argument, or one argument
Args ==
    {<<>>} \cup { <<a>> : a \in UNION { [1..n -> ArgAlphabet] : n \in 0..MaxArgLen } }

(***************************************************************************)
(* Tuples of the state, and its initial values.                            *)
(***************************************************************************)
main_vars ==
    <<pc_main, argv, port, cwd, bound, stdout>>

handler_vars ==
    <<hpc, request_version, request_path, self_path, branch, headers_buffer, wfile,
      resubmitted, observed>>

vars ==
    <<pc_main, argv, port, cwd, bound, stdout, dev_log, hpc, request_version,
      request_path, self_path, branch, headers_buffer, wfile, resubmitted, pending,
      observed, memo>>

None ==
    "None"

\* no request target
NoTarget ==
    <<>>

NoMemo ==
    [target |-> NoTarget, path |-> NoTarget]

\* no handler instance
NoHandler ==
    /\ hpc = "idle"
    /\ request_version = None
    /\ request_path = NoTarget
    /\ self_path = NoTarget
    /\ branch = None
    /\ headers_buffer = <<>>
    /\ wfile = <<>>
    /\ resubmitted = FALSE
    /\ observed = FALSE

\* the handler instance is dropped
DropHandler ==
    /\ hpc' = "idle"
    /\ request_version' = None
    /\ request_path' = NoTarget
    /\ self_path' = NoTarget
    /\ branch' = None
    /\ headers_buffer' = <<>>
    /\ wfile' = <<>>
    /\ resubmitted' = FALSE
    /\ observed' = FALSE

\* the server is in serve_forever on the default port, no request yet
Init ==
    /\ pc_main = "serve_forever"
    /\ argv = <<>>
    /\ port = DefaultPort
    /\ cwd = "script_dir"
    /\ bound = <<DefaultPort>>
    /\ stdout = <<"banner">>
    /\ dev_log = None
    /\ NoHandler
    /\ pending = NoTarget
    /\ memo = NoMemo

\* the process starts with any first argument
InitMain ==
    /\ pc_main = "parse_args"
    /\ argv \in Args
    /\ port = DefaultPort
    /\ cwd = "invocation_dir"
    /\ bound = <<>>
    /\ stdout = <<>>
    /\ dev_log = None
    /\ NoHandler
    /\ pending = NoTarget
    /\ memo = NoMemo

(***************************************************************************)
(* The handler of one request.  TCPServer handles one request at a time,   *)
(* each with a new handler instance.                                       *)
(***************************************************************************)
Receive(t, v, again, watch) ==
    /\ pc_main = "serve_forever"
    /\ hpc = "idle"
    /\ hpc' = "do_GET"
    /\ request_version' = v
    /\ request_path' = t
    /\ self_path' = t
    /\ resubmitted' = again
    /\ observed' = watch
    /\ pending' = NoTarget
    /\ UNCHANGED <<branch, headers_buffer, wfile, dev_log, memo>>
    /\ UNCHANGED main_vars

\* a client sends GET t
Accept ==
    /\ hpc = "idle"
    /\ pending = NoTarget
    /\ \E t \in Targets, v \in Versions : Receive(t, v, FALSE, FALSE)

\* a client sends the rewritten target of the previous request
Resubmit ==
    /\ hpc = "idle"
    /\ pending # NoTarget
    /\ \E v \in Versions : Receive(pending, v, TRUE, FALSE)

\* a client sends GET t, one request of an observed sequence
AcceptObserved ==
    /\ hpc = "idle"
    /\ pending = NoTarget
    /\ \E t \in SeqTargets, v \in Versions : Receive(t, v, FALSE, TRUE)

\* do_GET, lines 17-105: the rewrite of self.path and the line printed
do_GET ==
    /\ pc_main = "serve_forever"
    /\ hpc = "do_GET"
    /\ LET b == Branch(urlparse(self_path).path)
       IN  /\ branch' = b
           /\ dev_log' = IF b \in {"none", "root"} THEN dev_log ELSE b
    /\ self_path' = Rewrite(self_path)
    /\ hpc' = "send_head"
    /\ UNCHANGED <<request_version, request_path, headers_buffer, wfile, resubmitted,
                   observed, pending, memo>>
    /\ UNCHANGED main_vars

\* super().do_GET(), line 107: send_head finds the file or not and buffers
\* the status line and its headers
send_head ==
    /\ pc_main = "serve_forever"
    /\ hpc = "send_head"
    /\ \E found \in BOOLEAN :
           headers_buffer' = DelegateHeaders(request_version, found)
    /\ hpc' = "end_headers"
    /\ UNCHANGED <<request_version, request_path, self_path, branch, wfile, resubmitted,
                   observed, pending, memo, dev_log>>
    /\ UNCHANGED main_vars

\* end_headers, lines 109-114, called by send_head
end_headers ==
    /\ pc_main = "serve_forever"
    /\ hpc = "end_headers"
    /\ wfile' = wfile \o FlushHeaders(AddCors(headers_buffer, request_version),
                                      request_version)
    /\ headers_buffer' = <<>>
    /\ hpc' = "body"
    /\ UNCHANGED <<request_version, request_path, self_path, branch, resubmitted,
                   observed, pending, memo, dev_log>>
    /\ UNCHANGED main_vars

\* the rest of super().do_GET(): the file, or the error page, is written
write_body ==
    /\ pc_main = "serve_forever"
    /\ hpc = "body"
    /\ wfile' = Append(wfile, "body")
    /\ hpc' = "finish"
    /\ UNCHANGED <<request_version, request_path, self_path, branch, headers_buffer,
                   resubmitted, observed, pending, memo, dev_log>>
    /\ UNCHANGED main_vars

\* the request is done and its handler instance is dropped
finish ==
    /\ pc_main = "serve_forever"
    /\ hpc = "finish"
    /\ DropHandler
    /\ pending' \in (IF branch # "none" /\ ~observed THEN {NoTarget, self_path} ELSE {NoTarget})
    /\ memo' = IF observed /\ memo = NoMemo
               THEN [target |-> request_path, path |-> self_path]
               ELSE memo
    /\ UNCHANGED dev_log
    /\ UNCHANGED main_vars

(***************************************************************************)
(* main, lines 116-143.                                                    *)
(***************************************************************************)
\* lines 117-122
parse_args ==
    /\ pc_main = "parse_args"
    /\ LET r == ParsePort(argv)
       IN  /\ port' = r.port
           /\ stdout' = stdout \o r.out
           /\ pc_main' = IF r.raised THEN "crashed" ELSE "chdir"
    /\ UNCHANGED <<argv, cwd, bound, dev_log, pending, memo>>
    /\ UNCHANGED handler_vars

\* line 125
chdir ==
    /\ pc_main = "chdir"
    /\ cwd' = "script_dir"
    /\ pc_main' = "bind"
    /\ UNCHANGED <<argv, port, bound, stdout, dev_log, pending, memo>>
    /\ UNCHANGED handler_vars

\* lines 127-139: TCPServer(("", port), ...) binds, and the banner is printed
bind ==
    /\ pc_main = "bind"
    /\ port \in 0..65535
    /\ bound' = <<port>>
    /\ stdout' = Append(stdout, "banner")
    /\ pc_main' = "serve_forever"
    /\ UNCHANGED <<argv, port, cwd, dev_log, pending, memo>>
    /\ UNCHANGED handler_vars

\* line 127: the bind raises (the port is out of range, in use or not
\* permitted) and main ends with the exception
bind_error ==
    /\ pc_main = "bind"
    /\ bound' = <<port>>
    /\ pc_main' = "crashed"
    /\ UNCHANGED <<argv, port, cwd, stdout, dev_log, pending, memo>>
    /\ UNCHANGED handler_vars

\* lines 140-143: Ctrl+C ends serve_forever, and with it any handler
KeyboardInterrupt ==
    /\ pc_main = "serve_forever"
    /\ pc_main' = "stopped"
    /\ stdout' = Append(stdout, "Server stopped.")
    /\ DropHandler
    /\ pending' = NoTarget
    /\ UNCHANGED <<argv, port, cwd, bound, dev_log, memo>>

Next ==
    \/ Accept
    \/ Resubmit
    \/ do_GET
    \/ send_head
    \/ end_headers
    \/ write_body
    \/ finish
    \/ KeyboardInterrupt

Spec ==
    Init /\ [][Next]_vars

NextSeq ==
    \/ AcceptObserved
    \/ do_GET
    \/ send_head
    \/ end_headers
    \/ write_body
    \/ finish
    \/ KeyboardInterrupt

SpecSeq ==
    Init /\ [][NextSeq]_vars

NextMain ==
    \/ parse_args
    \/ chdir
    \/ bind
    \/ bind_error
    \/ KeyboardInterrupt

SpecMain ==
    InitMain /\ [][NextMain]_vars

(***************************************************************************)
(* What the claims speak of.                                               *)
(***************************************************************************)
\* do_GET has rewritten (or left) self.path of the current request
Rewritten ==
    hpc \in {"send_head", "end_headers", "body", "finish"}

\* the path and the query of the current request, as do_GET parses them
ReqPath ==
    urlparse(request_path).path

ReqQuery ==
    urlparse(request_path).query

EndsWith(s, e) ==
    Len(s) >= Len(e) /\ SubSeq(s, Len(s) - Len(e) + 1, Len(s)) = e

\* s without one trailing slash
StripSlash(s) ==
    IF s # <<>> /\ s[Len(s)] = "/" THEN SubSeq(s, 1, Len(s) - 1) ELSE s

\* the query of a rewritten target: what follows its first "?"
QueryOf(t) ==
    IF Find(t, "?") > 0 THEN From(t, Find(t, "?")) ELSE <<>>

\* "&" and the original query when there is one, nothing otherwise
AmpQuery(q) ==
    IF q # <<>> THEN <<"&">> \o q ELSE <<>>

\* path is prefix, then one non-empty segment without "/", then at most one "/"
IsSegmentPath(prefix, path) ==
    /\ StartsWith(path, prefix)
    /\ StripSlash(From(path, Len(prefix))) # <<>>
    /\ \A i \in 1..Len(StripSlash(From(path, Len(prefix)))) :
           StripSlash(From(path, Len(prefix)))[i] \notin {"/", "?"}

SegmentOf(prefix, path) ==
    StripSlash(From(path, Len(prefix)))

\* path is /post/<N> or /post/<N>/, <N> a non-empty sequence of digits
IsPostPath(path) ==
    /\ IsSegmentPath(Pat_post, path)
    /\ \A i \in 1..Len(SegmentOf(Pat_post, path)) : SegmentOf(Pat_post, path)[i] \in Digits

\* the six rules without a parameter: pattern and destination
PlainRules ==
    { <<Pat_communities, Dst_communities>>,
      <<Pat_search, Dst_search>>,
      <<Pat_create_post, Dst_create_post>>,
      <<Pat_create_community, Dst_create_community>>,
      <<Pat_inbox, Dst_inbox>>,
      <<Pat_settings, Dst_settings>> }

\* path is one of the shapes of rules 1-9
IsRuleShape(path) ==
    \/ \E r \in PlainRules : path = r[1] \/ path = r[1] \o <<"/">>
    \/ IsPostPath(path)
    \/ IsSegmentPath(Pat_u, path)
    \/ IsSegmentPath(Pat_c, path)

(***************************************************************************)
(* C1.  Every rewrite (rules 1-10, the root rule included) keeps a         *)
(* non-empty original query: the rewritten target's query is the original  *)
(* query, or ends with "&" and the original query.                         *)
(* As stated it fails for the root branch, which assigns '/index.html'     *)
(* whatever the query; amended: every rewrite by rules 1-9 keeps the       *)
(* query so, and the root rule gives /index.html without it.               *)
(***************************************************************************)
KeepsQuery ==
    \/ QueryOf(self_path) = ReqQuery
    \/ /\ Len(QueryOf(self_path)) > Len(ReqQuery) + 1
       /\ EndsWith(QueryOf(self_path), <<"&">> \o ReqQuery)

C1_QueryPreserved ==
    (Rewritten /\ branch # "none" /\ ReqQuery # <<>>) => KeepsQuery

C1_QueryPreservedRules1to9 ==
    /\ (Rewritten /\ branch \notin {"none", "root"} /\ ReqQuery # <<>>) => KeepsQuery
    /\ (Rewritten /\ branch = "root") =>
           self_path = <<"/", "i", "n", "d", "e", "x", ".", "h", "t", "m", "l">>

C1_Witness ==
    /\ Rewritten
    /\ branch = "u"
    /\ ReqQuery # <<>>
    /\ EndsWith(self_path, <<"&">> \o ReqQuery)

Unreserved ==
    { "a", "b", "c", "d", "e", "f", "g", "h", "i", "j", "k", "l", "m",
      "n", "o", "p", "q", "r", "s", "t", "u", "v", "w", "x", "y", "z",
      "0", "1", "2", "3", "4", "5", "6", "7", "8", "9", "-", ".", "_", "~" }

\* the character a percent escape stands for
Unescape(h) ==
    CASE h = <<"2", "5">> -> "%"
      [] h = <<"3", "B">> -> ";"
      [] h = <<"2", "6">> -> "&"
      [] h = <<"3", "D">> -> "="
      [] h = <<"2", "3">> -> "#"
      [] h = <<"3", "F">> -> "?"
      [] OTHER -> "other"

\* e is made of unreserved characters and of escapes "%XX"
RECURSIVE WellEncoded(_)
WellEncoded(e) ==
    IF e = <<>> THEN TRUE
    ELSE IF Head(e) = "%"
         THEN Len(e) >= 3 /\ Unescape(SubSeq(e, 2, 3)) # "other" /\ WellEncoded(From(e, 3))
         ELSE Head(e) \in Unreserved /\ WellEncoded(Tail(e))

RECURSIVE Decoded(_)
Decoded(e) ==
    IF e = <<>> THEN <<>>
    ELSE IF Head(e) = "%"
         THEN <<Unescape(SubSeq(e, 2, 3))>> \o Decoded(From(e, 3))
         ELSE <<Head(e)>> \o Decoded(Tail(e))

\* t is head, then a percent-encoding of name, then "&" and q if q is not empty
IsParamTarget(t, head, name, q) ==
    /\ StartsWith(t, head)
    /\ EndsWith(t, AmpQuery(q))
    /\ Len(t) >= Len(head) + Len(AmpQuery(q))
    /\ LET e == SubSeq(t, Len(head) + 1, Len(t) - Len(AmpQuery(q)))
       IN  WellEncoded(e) /\ Decoded(e) = name

C4_PlainRewrite ==
    \A r \in PlainRules :
        (Rewritten /\ (ReqPath = r[1] \/ ReqPath = r[1] \o <<"/">>)) =>
            self_path = r[2] \o (IF ReqQuery # <<>> THEN <<"?">> \o ReqQuery ELSE <<>>)

C4_Witness ==
    Rewritten /\ ReqPath = Pat_create_post /\ ReqQuery # <<>>

(***************************************************************************)
(* C5.  At most one of the ten patterns matches a request path, and the    *)
(* branch do_GET takes is that one.                                        *)
(***************************************************************************)
Matching(path) ==
    (IF MatchLiteral(Pat_communities, path) THEN {"communities"} ELSE {})
    \cup (IF MatchPost(path) # NoMatch THEN {"post"} ELSE {})
    \cup (IF MatchUser(path) # NoMatch THEN {"u"} ELSE {})
    \cup (IF MatchCommunity(path) # NoMatch THEN {"c"} ELSE {})
    \cup (IF MatchLiteral(Pat_search, path) THEN {"search"} ELSE {})
    \cup (IF MatchLiteral(Pat_create_post, path) THEN {"create-post"} ELSE {})
    \cup (IF MatchLiteral(Pat_create_community, path) THEN {"create-community"} ELSE {})
    \cup (IF MatchLiteral(Pat_inbox, path) THEN {"inbox"} ELSE {})
    \cup (IF MatchLiteral(Pat_settings, path) THEN {"settings"} ELSE {})
    \cup (IF path = Pat_root THEN {"root"} ELSE {})

C5_AtMostOneRule ==
    hpc # "idle" =>
        /\ Cardinality(Matching(ReqPath)) <= 1
        /\ Rewritten => Matching(ReqPath) = (IF branch = "none" THEN {} ELSE {branch})

C5_Witness ==
    Rewritten /\ branch = "c" /\ Matching(ReqPath) = {"c"}

C7_RewrittenIsFixed ==
    (resubmitted /\ Rewritten) => branch = "none" /\ self_path = request_path

C7_Witness ==
    /\ resubmitted
    /\ Rewritten
    /\ StartsWith(request_path, Dst_user \o <<"?">>)
    /\ \E i \in 1..Len(request_path) : request_path[i] = "&"

(***************************************************************************)
(* C8.  Every response carries the three CORS headers, in the header block *)
(* after the delegate's status line and headers and right before the line  *)
(* that ends the block.                                                    *)
(* As stated (every response) it fails for an HTTP/0.9 request, whose      *)
(* response has no header block; amended: every response sent while the    *)
(* handler's request_version is not 'HTTP/0.9'.                            *)
(***************************************************************************)
HasCorsBlock(w) ==
    LET e == Find(w, "\r\n")
    IN  /\ e >= 5
        /\ w[1] \in {"200 OK", "404 File not found"}
        /\ w[e - 3] = "Access-Control-Allow-Origin: *"
        /\ w[e - 2] = "Access-Control-Allow-Methods: GET, POST, OPTIONS"
        /\ w[e - 1] = "Access-Control-Allow-Headers: *"

\* before end_headers runs, the delegate's headers are buffered without them
NoCorsYet ==
    hpc = "end_headers" =>
        /\ wfile = <<>>
        /\ \A i \in 1..Len(headers_buffer) :
               headers_buffer[i] \notin { "Access-Control-Allow-Origin: *",
                                          "Access-Control-Allow-Methods: GET, POST, OPTIONS",
                                          "Access-Control-Allow-Headers: *" }

C8_EveryResponseHasCors ==
    /\ wfile # <<>> => HasCorsBlock(wfile)
    /\ NoCorsYet

C8_CorsUnlessHttp09 ==
    /\ (wfile # <<>> /\ request_version # "HTTP/0.9") => HasCorsBlock(wfile)
    /\ (hpc \in {"body", "finish"} /\ request_version # "HTTP/0.9") => wfile # <<>>
    /\ NoCorsYet

C8_Witness ==
    /\ hpc = "finish"
    /\ request_version = "HTTP/1.1"
    /\ branch = "post"
    /\ wfile[1] = "404 File not found"
    /\ wfile[Len(wfile)] = "body"

Warning ==
    "Invalid port number. Using default port 8000."

Warned ==
    \E i \in 1..Len(stdout) : stdout[i] = Warning

=============================================================================
